---- MODULE Spec2Model ----
(***************************************************************************)
(* Battery charging action server (robot_actions/battery_charger.py).      *)
(*                                                                         *)
(* The node BatteryCharger owns current_battery and registers three        *)
(* callbacks with an rclpy ActionServer.  main() spins the node with       *)
(* rclpy.spin, i.e. on one executor thread: a callback runs to completion  *)
(* before the next one is dispatched, and execute_callback blocks that     *)
(* thread in time.sleep between its iterations.  Clients are concurrent    *)
(* with the server: their goal and cancel requests wait in the transport   *)
(* until the executor takes them.                                          *)
(*                                                                         *)
(* Percentages are stored in units of 1/Unit percent, so that the          *)
(* increment 5.0 * 0.5 = 2.5 is the integer 5.  Times are in deciseconds.  *)
(***************************************************************************)
EXTENDS Integers, Sequences, FiniteSets

\* Number of goal requests the clients send in one run.
MaxGoals == 2

\* Number of goal requests sent in one run of the fair specification, whose
\* liveness check is the costlier one.
MaxFairGoals == 1

\* Number of cancel requests the clients send in one run.
MaxCancels == 1

\* Cap on the iterations of one execution of the loop (never reached: 32
\* iterations take the battery from 20 to 100).
MaxIters == 40

\* Resolution of the stored percentages: 1 unit = 1/Unit percent.
Unit == 2

\* time.sleep(0.5), in deciseconds.
TickLen == 5

\* self.current_battery = 20
InitialBattery == 20 * Unit

\* self.charge_rate = 5.0 (percent per second), in units per second.
charge_rate == 5 * Unit

\* charge_amount = self.charge_rate * 0.5
charge_amount_full_second == charge_rate

charge_amount == charge_rate \div 2

\* goal_request.target_percentage, in percent: the values the clients send.
Targets == {-1, 0, 20, 22, 25, 100, 101}

Min(a, b) == IF a <= b THEN a ELSE b

\* int(x) of a value stored in units: truncation toward zero, in percent.
IntOf(x) == IF x >= 0 THEN x \div Unit ELSE -((-x) \div Unit)

VARIABLES
    current_battery,   \* self.current_battery, in units
    goals,             \* one record per goal request sent, in sending order
    cancel_requests    \* goal ids whose cancel request waits in the transport

vars == <<current_battery, goals, cancel_requests>>

Ids == 1..Len(goals)

Active == {"ACCEPTED", "EXECUTING", "CANCELING"}
Terminal == {"SUCCEEDED", "CANCELED"}

\* The goal id is running execute_callback (in the loop or in time.sleep).
InExecute(g) == goals[g].pc \in {"loop", "sleep"}

\* goal_handle.is_cancel_requested
is_cancel_requested(g) == goals[g].state = "CANCELING"

\* The target of goal g in units.
target(g) == goals[g].target * Unit

NewGoal(t) ==
    [target |-> t, state |-> "REQUESTED", pc |-> "none", log |-> "none",
     admitted_at |-> -1, incs |-> 0, ticks |-> 0, cancel_sent |-> -1,
     cancel_response |-> "none", feedback |-> <<>>, results |-> <<>>]

Init ==
    /\ current_battery = InitialBattery
    /\ goals = <<>>
    /\ cancel_requests = {}

----------------------------------------------------------------------------
\* Clients (the environment).

\* A client sends a goal request with target t.
SendGoal(t) ==
    /\ Len(goals) < MaxGoals
    /\ goals' = Append(goals, NewGoal(t))
    /\ UNCHANGED <<current_battery, cancel_requests>>

\* A client sends a cancel request for goal g (once per goal).  cancel_sent
\* remembers the number of increments done when the request was sent while
\* the goal was in its loop with the battery still below the target; it is
\* -3 for a request sent while the goal was in its loop with the battery
\* already at the target, and -2 for a request sent before the loop.
SendCancel(g) ==
    /\ goals[g].state \in {"REQUESTED", "ACCEPTED", "EXECUTING"}
    /\ goals[g].cancel_sent = -1
    /\ g \notin cancel_requests
    /\ Cardinality({h \in Ids : goals[h].cancel_sent # -1}) < MaxCancels
    /\ cancel_requests' = cancel_requests \cup {g}
    /\ goals' = [goals EXCEPT ![g].cancel_sent =
                    IF InExecute(g) /\ current_battery < target(g)
                    THEN goals[g].incs
                    ELSE IF InExecute(g) THEN -3 ELSE -2]
    /\ UNCHANGED current_battery

----------------------------------------------------------------------------
\* The server: the callbacks of BatteryCharger, dispatched by the executor.

\* rclpy.spin(charger): one executor thread.  It takes new work only while
\* no callback is running; execute_callback keeps it from its first
\* statement to its return, time.sleep included.
ExecutorReadyReentrant == TRUE

ExecutorReady == \A g \in Ids : ~InExecute(g)

\* ActionServer(...) is built without handle_accepted_callback: an accepted
\* goal is executed at once, before the next goal request is taken.
NoQueuedExecute ==
    \A g \in Ids : ~(goals[g].state \in {"ACCEPTED", "CANCELING"} /\ goals[g].pc = "none")

\* goal_callback: the response and the message it logs.
goal_callback_no_upper(t) ==
    IF t < 0
    THEN [response |-> "REJECT", log |-> "Invalid target"]
    ELSE IF current_battery >= t * Unit
         THEN [response |-> "REJECT", log |-> "Already at"]
         ELSE [response |-> "ACCEPT", log |-> "Goal accepted"]

goal_callback_strict(t) ==
    IF t < 0 \/ t > 100
    THEN [response |-> "REJECT", log |-> "Invalid target"]
    ELSE IF current_battery > t * Unit
         THEN [response |-> "REJECT", log |-> "Already at"]
         ELSE [response |-> "ACCEPT", log |-> "Goal accepted"]

goal_callback_excl_upper(t) ==
    IF t < 0 \/ t >= 100
    THEN [response |-> "REJECT", log |-> "Invalid target"]
    ELSE IF current_battery >= t * Unit
         THEN [response |-> "REJECT", log |-> "Already at"]
         ELSE [response |-> "ACCEPT", log |-> "Goal accepted"]

goal_callback(t) ==
    IF t < 0 \/ t > 100
    THEN [response |-> "REJECT", log |-> "Invalid target"]
    ELSE IF current_battery >= t * Unit
         THEN [response |-> "REJECT", log |-> "Already at"]
         ELSE [response |-> "ACCEPT", log |-> "Goal accepted"]

\* cancel_callback
cancel_callback_veto(g) == "REJECT"

cancel_callback(g) == "ACCEPT"

\* The executor takes the oldest waiting goal request and runs goal_callback.
GoalCallbackAssigns ==
    /\ ExecutorReady
    /\ NoQueuedExecute
    /\ \E g \in Ids :
        /\ goals[g].state = "REQUESTED"
        /\ \A h \in 1..(g - 1) : goals[h].state # "REQUESTED"
        /\ LET r == goal_callback(goals[g].target) IN
           /\ goals' = [goals EXCEPT
                        ![g].state = IF r.response = "ACCEPT" THEN "ACCEPTED" ELSE "REJECTED",
                        ![g].log = r.log,
                        ![g].admitted_at = current_battery]
           /\ current_battery' = IF r.response = "ACCEPT"
                                 THEN target(g) ELSE current_battery
    /\ UNCHANGED cancel_requests

GoalCallback ==
    /\ ExecutorReady
    /\ NoQueuedExecute
    /\ \E g \in Ids :
        /\ goals[g].state = "REQUESTED"
        /\ \A h \in 1..(g - 1) : goals[h].state # "REQUESTED"
        /\ LET r == goal_callback(goals[g].target) IN
           goals' = [goals EXCEPT
                        ![g].state = IF r.response = "ACCEPT" THEN "ACCEPTED" ELSE "REJECTED",
                        ![g].log = r.log,
                        ![g].admitted_at = current_battery]
    /\ UNCHANGED <<current_battery, cancel_requests>>

\* The executor takes the cancel request for goal g.  The action server calls
\* cancel_callback only for a goal it knows and that has not terminated; on
\* ACCEPT the goal handle goes to CANCELING.
CancelRequest(g) ==
    /\ ExecutorReady
    /\ g \in cancel_requests
    /\ cancel_requests' = cancel_requests \ {g}
    /\ IF goals[g].state \in {"ACCEPTED", "EXECUTING"}
       THEN goals' = [goals EXCEPT
                        ![g].cancel_response = cancel_callback(g),
                        ![g].state = IF cancel_callback(g) = "ACCEPT"
                                     THEN "CANCELING" ELSE @]
       ELSE goals' = [goals EXCEPT ![g].cancel_response = "UNKNOWN_OR_TERMINATED"]
    /\ UNCHANGED current_battery

\* The executor starts execute_callback for the accepted goal g:
\* start_time = time.time().
ExecuteStartResets(g) ==
    /\ \A h \in Ids : ~InExecute(h)
    /\ goals[g].pc = "none"
    /\ goals[g].state \in {"ACCEPTED", "CANCELING"}
    /\ goals' = [goals EXCEPT
                    ![g].pc = "loop",
                    ![g].state = IF @ = "ACCEPTED" THEN "EXECUTING" ELSE @]
    /\ current_battery' = InitialBattery
    /\ UNCHANGED cancel_requests

ExecuteStart(g) ==
    /\ ExecutorReady
    /\ goals[g].pc = "none"
    /\ goals[g].state \in {"ACCEPTED", "CANCELING"}
    /\ goals' = [goals EXCEPT
                    ![g].pc = "loop",
                    ![g].state = IF @ = "ACCEPTED" THEN "EXECUTING" ELSE @]
    /\ UNCHANGED <<current_battery, cancel_requests>>

\* self.current_battery = min(self.current_battery + charge_amount, target)
ChargeUnclamped(b, t) == b + charge_amount

ChargeNoProgress(b, t) == Min(b, t)

Charge(b, t) == Min(b + charge_amount, t)

\* The feedback message built from the battery level b and the target t.
MakeFeedback(b, t) ==
    [current_percentage |-> IntOf(b),
     time_remaining |-> ((t - b) * 10) \div charge_rate,
     charging_rate |-> charge_rate]

\* The result of the cancellation exit.
CancelResult(g) ==
    [success |-> FALSE,
     final_percentage |-> IntOf(current_battery),
     charging_time |-> goals[g].ticks * TickLen]

\* The result of the normal exit.
SuccessResultCopiedFromCancel(g) ==
    [success |-> FALSE,
     final_percentage |-> IntOf(current_battery),
     charging_time |-> goals[g].ticks * TickLen]

SuccessResult(g) ==
    [success |-> TRUE,
     final_percentage |-> IntOf(current_battery),
     charging_time |-> goals[g].ticks * TickLen]

\* Top of the loop, cancellation requested: goal_handle.canceled(), return.
LoopCancelAfterCharge(g) ==
    /\ goals[g].pc = "loop"
    /\ current_battery < target(g)
    /\ is_cancel_requested(g)
    /\ current_battery' = Charge(current_battery, target(g))
    /\ goals' = [goals EXCEPT
                    ![g].state = "CANCELED",
                    ![g].incs = @ + 1,
                    ![g].results = Append(@, [CancelResult(g) EXCEPT
                                        !.final_percentage = IntOf(current_battery')]),
                    ![g].pc = "done"]
    /\ UNCHANGED cancel_requests

LoopCancelNoReturn(g) ==
    /\ goals[g].pc = "loop"
    /\ current_battery < target(g)
    /\ is_cancel_requested(g)
    /\ goals' = [goals EXCEPT
                    ![g].state = "CANCELED",
                    ![g].results = Append(@, CancelResult(g)),
                    ![g].pc = "sleep"]
    /\ UNCHANGED <<current_battery, cancel_requests>>

LoopCancel(g) ==
    /\ goals[g].pc = "loop"
    /\ current_battery < target(g)
    /\ is_cancel_requested(g)
    /\ goals' = [goals EXCEPT
                    ![g].state = "CANCELED",
                    ![g].results = Append(@, CancelResult(g)),
                    ![g].pc = "done"]
    /\ UNCHANGED <<current_battery, cancel_requests>>

\* One iteration of the loop up to time.sleep: charge, publish the feedback.
LoopChargeStaleFeedback(g) ==
    /\ goals[g].pc = "loop"
    /\ current_battery < target(g)
    /\ ~is_cancel_requested(g)
    /\ goals[g].incs < MaxIters
    /\ current_battery' = Charge(current_battery, target(g))
    /\ goals' = [goals EXCEPT
                    ![g].incs = @ + 1,
                    ![g].feedback = Append(@, MakeFeedback(current_battery, target(g))),
                    ![g].pc = "sleep"]
    /\ UNCHANGED cancel_requests

LoopCharge(g) ==
    /\ goals[g].pc = "loop"
    /\ current_battery < target(g)
    /\ ~is_cancel_requested(g)
    /\ goals[g].incs < MaxIters
    /\ current_battery' = Charge(current_battery, target(g))
    /\ goals' = [goals EXCEPT
                    ![g].incs = @ + 1,
                    ![g].feedback = Append(@, MakeFeedback(current_battery', target(g))),
                    ![g].pc = "sleep"]
    /\ UNCHANGED cancel_requests

\* time.sleep(0.5) returns; back to the top of the loop.
Sleep(g) ==
    /\ goals[g].pc = "sleep"
    /\ goals' = [goals EXCEPT ![g].pc = "loop", ![g].ticks = @ + 1]
    /\ UNCHANGED <<current_battery, cancel_requests>>

\* The loop condition fails: goal_handle.succeed(), return the result.
LoopSucceed(g) ==
    /\ goals[g].pc = "loop"
    /\ ~(current_battery < target(g))
    /\ goals' = [goals EXCEPT
                    ![g].state = "SUCCEEDED",
                    ![g].results = Append(@, SuccessResult(g)),
                    ![g].pc = "done"]
    /\ UNCHANGED <<current_battery, cancel_requests>>

\* execute_callback, one step of it.
execute_callback(g) ==
    \/ LoopCancel(g)
    \/ LoopCharge(g)
    \/ Sleep(g)
    \/ LoopSucceed(g)

Server ==
    \/ GoalCallback
    \/ \E g \in Ids : CancelRequest(g)
    \/ \E g \in Ids : ExecuteStart(g)
    \/ \E g \in Ids : execute_callback(g)

Next ==
    \/ \E t \in Targets : SendGoal(t)
    \/ \E g \in Ids : SendCancel(g)
    \/ Server

Spec == Init /\ [][Next]_vars

\* The executor thread runs the execution it has started or queued: the
\* loop has no blocking call other than time.sleep, which returns.
Execution == \E g \in Ids : ExecuteStart(g) \/ execute_callback(g)

FairNext ==
    \/ Len(goals) < MaxFairGoals /\ \E t \in Targets : SendGoal(t)
    \/ \E g \in Ids : SendCancel(g)
    \/ Server

FairSpec == Init /\ [][FairNext]_vars /\ WF_vars(Execution)

----------------------------------------------------------------------------
\* Properties.

\* No goal after g has been accepted: g is the goal that last touched the
\* battery.
NoLaterAccepted(g) ==
    \A h \in Ids : h > g => goals[h].state \in {"REQUESTED", "REJECTED"}

\* C1: a goal whose target is below 0 or above 100 is rejected by admission
\* (as an invalid target); it is never accepted and never executed.
C1_InvalidTargetRejected ==
    \A g \in Ids :
        (goals[g].target < 0 \/ goals[g].target > 100) =>
            /\ goals[g].state \in {"REQUESTED", "REJECTED"}
            /\ goals[g].pc = "none"
            /\ goals[g].incs = 0
            /\ goals[g].results = <<>>
            /\ goals[g].state = "REJECTED" => goals[g].log = "Invalid target"

\* Both an over-range and an under-range target have been rejected.
C1_Witness ==
    \E g, h \in Ids :
        /\ goals[g].target = 101 /\ goals[g].state = "REJECTED"
        /\ goals[h].target = -1 /\ goals[h].state = "REJECTED"

\* C2: whenever admission handles a goal whose target is at or below the
\* current battery level, whatever earlier goals left the level at, it
\* rejects the goal and the level stays as it was.
C2_AlreadySatisfiedRejected ==
    [][\A g \in Ids :
        (/\ goals[g].state = "REQUESTED"
         /\ goals'[g].state # "REQUESTED"
         /\ target(g) <= current_battery)
        => /\ goals'[g].state = "REJECTED"
           /\ goals'[g].log \in {"Already at", "Invalid target"}
           /\ goals[g].target >= 0 => goals'[g].log = "Already at"
           /\ current_battery' = current_battery]_vars

\* A goal below the level left behind by an earlier, succeeded goal was
\* rejected as already satisfied.
C2_Witness ==
    \E g, h \in Ids :
        /\ g < h
        /\ goals[g].state = "SUCCEEDED"
        /\ goals[h].state = "REJECTED"
        /\ goals[h].log = "Already at"
        /\ goals[h].admitted_at > InitialBattery
        /\ goals[h].admitted_at = current_battery
        /\ 0 <= goals[h].target
        /\ target(h) < goals[h].admitted_at

\* C3: while an accepted goal is pending, executing, or has terminated and
\* no later goal has been accepted, the battery level is at most the goal's
\* target.
C3_NeverOvershoots ==
    \A g \in Ids :
        (goals[g].state \in Active \cup Terminal /\ NoLaterAccepted(g))
            => current_battery <= target(g)

\* A goal succeeded whose last increment was clamped to the target (22 is
\* not a multiple of the increment above 20).
C3_Witness ==
    \E g \in Ids :
        /\ goals[g].state = "SUCCEEDED"
        /\ goals[g].incs >= 1
        /\ current_battery = target(g)
        /\ (goals[g].admitted_at + goals[g].incs * charge_amount) > target(g)

\* C4: at most one goal is accepted and not yet terminated (pending
\* execution or inside the loop) at any instant.
C4_AtMostOneActiveGoal ==
    Cardinality({g \in Ids : goals[g].state \in Active}) <= 1

\* A goal is inside the loop while another request, which admission would
\* accept at the current level, waits in the transport.
C4_Witness ==
    \E g, h \in Ids :
        /\ InExecute(g)
        /\ goals[h].state = "REQUESTED"
        /\ goal_callback(goals[h].target).response = "ACCEPT"

\* C5: a cancel request sent while the goal is in its loop with the battery
\* below the target is seen at the next top-of-loop check: the goal makes at
\* most one more increment after the request, and does not run on.
C5_CancelSeenWithinOneTick ==
    \A g \in Ids :
        goals[g].cancel_sent >= 0 => goals[g].incs <= goals[g].cancel_sent + 1

\* C6: the step that observes the cancellation flag returns one result with
\* success = FALSE whose final_percentage is the truncated level left by the
\* last completed increment (the last feedback's level, or the level read
\* at admission when no increment was made), and it changes neither the
\* battery level nor the feedback.
C6_CancelExitKeepsState ==
    [][\A g \in Ids :
        (goals[g].state = "CANCELING" /\ goals'[g].state = "CANCELED")
        => /\ current_battery' = current_battery
           /\ goals'[g].feedback = goals[g].feedback
           /\ goals'[g].incs = goals[g].incs
           /\ Len(goals'[g].results) = 1
           /\ goals'[g].results[1].success = FALSE
           /\ goals'[g].results[1].final_percentage =
                IF goals[g].feedback = <<>>
                THEN IntOf(goals[g].admitted_at)
                ELSE goals[g].feedback[Len(goals[g].feedback)].current_percentage
           /\ goals'[g].pc = "done"]_vars

\* A goal was cancelled at a level raised by an earlier goal.
C6_Witness ==
    \E g \in Ids :
        /\ goals[g].state = "CANCELED"
        /\ goals[g].results # <<>>
        /\ goals[g].results[1].final_percentage > IntOf(InitialBattery)

\* C7: a goal has a result exactly when it has terminated, it never has more
\* than one, the result's success flag agrees with the terminal state, and
\* once a goal has its result neither its feedback nor its result changes.
C7_ExactlyOneResult ==
    /\ [](\A g \in Ids :
            /\ Len(goals[g].results) <= 1
            /\ (goals[g].state \in Terminal) <=> (Len(goals[g].results) = 1)
            /\ (goals[g].pc = "done") <=> (Len(goals[g].results) = 1)
            /\ Len(goals[g].results) = 1 =>
                   (goals[g].results[1].success <=> goals[g].state = "SUCCEEDED"))
    /\ [][\A g \in Ids :
            goals[g].results # <<>> =>
                /\ goals'[g].feedback = goals[g].feedback
                /\ goals'[g].results = goals[g].results]_vars

\* One goal ended cancelled, another succeeded after feedback, each with its
\* single result.
C7_Witness ==
    \E g, h \in Ids :
        /\ goals[g].state = "CANCELED" /\ Len(goals[g].results) = 1
        /\ goals[h].state = "SUCCEEDED" /\ Len(goals[h].results) = 1
        /\ Len(goals[h].feedback) >= 2

\* C8: under a fair executor every accepted goal reaches SUCCEEDED or
\* CANCELED; the iteration cap of the model is never what stops the loop.
C8_AcceptedGoalTerminates ==
    /\ [](\A g \in Ids :
            (goals[g].pc = "loop" /\ current_battery < target(g))
                => goals[g].incs < MaxIters)
    /\ \A g \in 1..MaxGoals :
            (g \in Ids /\ goals[g].state = "ACCEPTED")
                ~> (g \in Ids /\ goals[g].state \in Terminal)

\* A goal went through the whole way from 20 to 100 and terminated.
C8_Witness ==
    \E g \in Ids :
        /\ goals[g].state = "SUCCEEDED"
        /\ goals[g].target = 100
        /\ goals[g].incs = 32

\* C9: every increment of the loop strictly raises the battery level, never
\* above the target, and the loop is left by its normal exit only with the
\* level exactly at the target.
C9_StrictIncreaseToTarget ==
    [][\A g \in Ids :
        /\ goals'[g].incs # goals[g].incs =>
              /\ current_battery' > current_battery
              /\ current_battery' <= target(g)
        /\ (goals[g].state # "SUCCEEDED" /\ goals'[g].state = "SUCCEEDED") =>
              current_battery = target(g)]_vars

\* A goal is in the middle of its execution: two increments made, the
\* target not yet reached.
C9_Witness ==
    \E g \in Ids :
        /\ goals[g].state = "EXECUTING"
        /\ goals[g].incs = 2
        /\ current_battery = goals[g].admitted_at + 2 * charge_amount
        /\ current_battery < target(g)

\* C10: the current_percentage values of a goal's feedback never decrease,
\* and a succeeded goal's last feedback carries the final_percentage of its
\* result.
C10_FeedbackMonotone ==
    \A g \in Ids :
        /\ \A i \in 1..(Len(goals[g].feedback) - 1) :
              goals[g].feedback[i].current_percentage
                  <= goals[g].feedback[i + 1].current_percentage
        /\ goals[g].state = "SUCCEEDED" =>
              /\ goals[g].feedback # <<>>
              /\ goals[g].feedback[Len(goals[g].feedback)].current_percentage
                    = goals[g].results[1].final_percentage

\* A goal succeeded after feedback 22 (truncated from 22.5) and then 25.
C10_Witness ==
    \E g \in Ids :
        /\ goals[g].state = "SUCCEEDED"
        /\ Len(goals[g].feedback) = 2
        /\ goals[g].feedback[1].current_percentage = 22
        /\ goals[g].feedback[2].current_percentage = 25
        /\ goals[g].results[1].final_percentage = 25

\* The goal g was admitted at the initial level 20 with target 100 and no
\* cancellation has been requested of it.
FullChargeRun(g) ==
    /\ goals[g].admitted_at = InitialBattery
    /\ goals[g].target = 100
    /\ goals[g].state \in {"EXECUTING", "SUCCEEDED"}
    /\ NoLaterAccepted(g)

\* C11 as stated: from level 20 with target 100 and no cancellation, each
\* tick adds 5 and the goal succeeds after exactly 16 ticks with
\* success = TRUE and final_percentage = 100.
C11_FivePerTickSixteenTicks ==
    \A g \in Ids :
        FullChargeRun(g) =>
            /\ current_battery = InitialBattery + goals[g].incs * (5 * Unit)
            /\ goals[g].state = "SUCCEEDED" =>
                  /\ goals[g].ticks = 16
                  /\ goals[g].results[1].success
                  /\ goals[g].results[1].final_percentage = 100

\* C11 amended: from level 20 with target 100 and no cancellation, each tick
\* adds 2.5 and the goal succeeds after exactly 32 ticks (16 seconds) with
\* success = TRUE and final_percentage = 100.
C11_HalfRatePerTickThirtyTwoTicks ==
    \A g \in Ids :
        FullChargeRun(g) =>
            /\ 2 * (current_battery - InitialBattery) = goals[g].incs * (5 * Unit)
            /\ goals[g].state = "SUCCEEDED" =>
                  /\ goals[g].ticks = 32
                  /\ goals[g].incs = 32
                  /\ goals[g].results[1] =
                        [success |-> TRUE, final_percentage |-> 100,
                         charging_time |-> 160]

\* The run from 20 to 100 has ended with its result.
C11_Witness ==
    \E g \in Ids :
        /\ FullChargeRun(g)
        /\ goals[g].state = "SUCCEEDED"
        /\ goals[g].results # <<>>
        /\ Len(goals[g].feedback) = 32
        /\ current_battery = 100 * Unit

\* C12: from level 20 with target 100, a cancel request sent after 3
\* completed ticks ends the goal with success = FALSE and
\* final_percentage = 35.
C12_CancelAfterThreeTicks ==
    \A g \in Ids :
        (/\ goals[g].admitted_at = InitialBattery
         /\ goals[g].target = 100
         /\ goals[g].cancel_sent = 3
         /\ goals[g].ticks >= 3
         /\ goals[g].pc = "done")
        => /\ goals[g].results[1].success = FALSE
           /\ goals[g].results[1].final_percentage = 35

\* C13: the step in which admission decides a goal, accepting or rejecting
\* it, leaves the battery level unchanged.
C13_AdmissionKeepsBattery ==
    [][\A g \in Ids :
        (goals[g].state = "REQUESTED" /\ goals'[g].state # "REQUESTED")
            => current_battery' = current_battery]_vars

\* One goal has been rejected and another has just been accepted, at a level
\* raised by an earlier execution or not.
C13_Witness ==
    \E g, h \in Ids :
        /\ goals[g].state = "REJECTED"
        /\ goals[h].state = "ACCEPTED"
        /\ goals[h].admitted_at = current_battery
        /\ goals[g].admitted_at = current_battery

\* C14: the battery level is between 0 and 100 percent in every reachable
\* state.
C14_BatteryInRange ==
    0 <= current_battery /\ current_battery <= 100 * Unit

\* The battery is full after an execution, and a later request has been
\* decided at that level.
C14_Witness ==
    \E g, h \in Ids :
        /\ current_battery = 100 * Unit
        /\ goals[g].state = "SUCCEEDED"
        /\ goals[h].admitted_at = 100 * Unit

\* C15: whenever the executor takes the cancel request of a goal that is
\* accepted or executing, cancel_callback answers ACCEPT; that step changes
\* neither the battery level nor the goal's position, feedback or results,
\* and does not terminate the goal (the action server only marks it
\* CANCELING).
C15_CancelAlwaysAccepted ==
    [][\A g \in Ids :
        (/\ g \in cancel_requests
         /\ g \notin cancel_requests'
         /\ goals[g].state \in {"ACCEPTED", "EXECUTING"})
        => /\ goals'[g].cancel_response = "ACCEPT"
           /\ current_battery' = current_battery
           /\ goals'[g].state = "CANCELING"
           /\ goals'[g].pc = goals[g].pc
           /\ goals'[g].incs = goals[g].incs
           /\ goals'[g].feedback = goals[g].feedback
           /\ goals'[g].results = goals[g].results]_vars

\* A cancel request was accepted for a goal admitted at a level that an
\* earlier goal had raised; the goal is marked, not yet terminated.
C15_Witness ==
    \E g \in Ids :
        /\ goals[g].cancel_response = "ACCEPT"
        /\ goals[g].state = "CANCELING"
        /\ goals[g].admitted_at > InitialBattery

\* No goal is accepted and unfinished.
Idle == \A g \in Ids : goals[g].state \notin Active

\* C16: once a goal is rejected, cancelled or succeeded the server is idle
\* with the battery level as that goal left it; an idle server with a waiting
\* request can run admission; and admission accepts every goal whose target
\* is within 0..100 and above the current level.
C16_IdleAgainAndAccepting ==
    /\ []((Idle /\ \E h \in Ids : goals[h].state = "REQUESTED")
            => ENABLED GoalCallback)
    /\ [][\A g \in Ids :
            /\ (/\ goals[g].state \notin (Terminal \cup {"REJECTED"})
                /\ goals'[g].state \in (Terminal \cup {"REJECTED"}))
               => /\ \A h \in Ids : goals'[h].state \notin Active
                  /\ \A h \in Ids : goals'[h].pc \notin {"loop", "sleep"}
                  /\ current_battery' = current_battery
            /\ (/\ goals[g].state = "REQUESTED"
                /\ goals'[g].state # "REQUESTED"
                /\ 0 <= goals[g].target
                /\ goals[g].target <= 100
                /\ target(g) > current_battery)
               => goals'[g].state = "ACCEPTED"]_vars

\* After a cancelled goal a new goal with target 100 was accepted and is
\* charging.
C16_Witness ==
    \E g, h \in Ids :
        /\ g < h
        /\ goals[g].state = "CANCELED"
        /\ goals[h].state = "EXECUTING"
        /\ goals[h].target = 100
        /\ goals[h].incs >= 1

\* C18: a succeeded goal's final_percentage equals its (integer) target and
\* the goal has emitted at least one feedback.
C18_SucceededAtTarget ==
    \A g \in Ids :
        goals[g].state = "SUCCEEDED" =>
            /\ goals[g].results[1].final_percentage = goals[g].target
            /\ Len(goals[g].feedback) >= 1

\* Two goals succeeded one after the other, the second from the level the
\* first had reached.
C18_Witness ==
    \E g, h \in Ids :
        /\ g < h
        /\ goals[g].state = "SUCCEEDED"
        /\ goals[h].state = "SUCCEEDED"
        /\ goals[h].admitted_at = target(g)
        /\ goals[h].results[1].final_percentage = goals[h].target

C20_OnlyIncrementChangesBattery ==
    [][/\ current_battery' >= current_battery
       /\ current_battery' # current_battery =>
             \E g \in Ids :
                 /\ goals[g].pc = "loop"
                 /\ goals'[g].pc = "sleep"
                 /\ goals[g].state = "EXECUTING"
                 /\ goals'[g].state = "EXECUTING"
                 /\ goals'[g].incs = goals[g].incs + 1]_vars

\* A second goal is charging above the level at which the first goal ended.
C20_Witness ==
    \E g, h \in Ids :
        /\ g < h
        /\ goals[g].state \in Terminal
        /\ goals[g].incs >= 1
        /\ goals[h].incs >= 1
        /\ current_battery > goals[h].admitted_at
        /\ goals[h].admitted_at > InitialBattery

====
